---- MODULE Spec2Model ----
(***************************************************************************)
(* Model of the Digital Ocean function pipes of open-webui-infrastructure. *)
(*                                                                         *)
(* The v9 pipe (src/pipes/do-function-pipe-with-kb-images.py) is modelled  *)
(* as one Pipe instance that serves one invocation after the other.  A     *)
(* response text is a sequence of tokens: a token is a run of characters   *)
(* that the image regular expression and str.replace treat as a unit (a    *)
(* word of prose, a plain URL, a Markdown image ![alt](url), a gallery     *)
(* entry, the notification).  Each token carries the URL it shows in its   *)
(* field u, so that matching, redaction and "the URL occurs in the text"   *)
(* are computed on the tokens the way the code computes them on the        *)
(* characters.                                                             *)
(*                                                                         *)
(* Six specifications share the variables:                                 *)
(*   Spec        one chat invocation of the v9 pipe, with image detection, *)
(*               signing, redaction and the gallery;                       *)
(*   RelaySpec   one invocation, chat or task, of each of the three pipes: *)
(*               the endpoint check, the POST and its outcomes, the task   *)
(*               extractor and the notification;                           *)
(*   ClientSpec  _get_s3_client of the v9 pipe called from several threads;*)
(*   ExtractSpec the loop of _extract_image_urls, one candidate at a time; *)
(*   TitleSpec   _extract_title and _fallback_title on strings of          *)
(*               characters;                                               *)
(*   StreamSpec  the generator _stream_with_enhancements on streams with   *)
(*               lines of every kind, and the failure of the read.         *)
(***************************************************************************)
EXTENDS Integers, Sequences, FiniteSets, TLC

(***************************************************************************)
(* Bounds of the model.                                                    *)
(***************************************************************************)
MaxLen == 3        \* tokens of an upstream text (blocking path)
MaxLines == 2      \* data lines of an upstream stream (streaming path)
MaxImages == 3     \* largest value given to the valve MAX_IMAGES_PER_RESPONSE
MaxFollowUps == 6  \* lines, and entries of a follow_ups list, in a task answer
MaxThreads == 2    \* threads that run invocations of one instance at a time

(***************************************************************************)
(* The instance (self), the invocation in progress and its environment.    *)
(***************************************************************************)
VARIABLES
    valves,               \* self.valves
    s3_client,            \* self._s3_client
    env,                  \* what boto3 does during this invocation
    pc,                   \* where the invocation is
    body,                 \* the inbound request body
    response,             \* the upstream HTTP response (lines or JSON)
    stream_iter,          \* the lines of the upstream stream not read yet
    all_chunks,           \* _stream_with_enhancements: all_chunks
    accumulated_content,  \* _stream_with_enhancements: accumulated_content
    image_urls,           \* the gallery list of the last extraction
    urls_to_remove,       \* the redaction list of the last extraction
    pending,              \* chunks the generator has still to yield
    emitted,              \* chunks yielded to the caller so far
    result,               \* what pipe returned (blocking) or raised
    impl,                 \* which of the three pipes the instance is
    task,                 \* __task__ of the invocation
    payload,              \* the JSON body of the last requests.post
    posts,                \* number of requests.post calls of the invocation
    task_body,            \* __task_body__ of the invocation
    threads,              \* ClientSpec: the threads calling _get_s3_client
    clients,              \* ClientSpec: boto3.client(...) calls that returned a client
    candidates,           \* ExtractSpec: the matches the loop has still to visit
    seen_urls,            \* ExtractSpec: _extract_image_urls: seen
    trace,                \* ExtractSpec: what the loop did with each candidate
    inbound               \* the request body as the caller passed it

vars == <<valves, s3_client, env, pc, body, response, stream_iter, all_chunks,
          accumulated_content, image_urls, urls_to_remove, pending, emitted,
          result, impl, task, task_body, payload, posts, threads, clients,
          candidates, seen_urls, trace, inbound>>

None == "None"
S3Handle == "boto3.client"

(***************************************************************************)
(* URLs and tokens.                                                        *)
(***************************************************************************)
DoSpacesUrls == {"u1", "u2"}          \* unsigned *.digitaloceanspaces.com image URLs
SignedUrl(url) == "signed:" \o url    \* what generate_presigned_url returns for url
SignedUrls == {SignedUrl(u) : u \in DoSpacesUrls}
PlaceholderText == "[image will be displayed below]"

IsDoSpaces(url) == url \in DoSpacesUrls \cup SignedUrls   \* '.digitaloceanspaces.com' in url
HasSignature(url) == url \in SignedUrls                   \* 'X-Amz-' in url

Word == [t |-> "word", u |-> "-", n |-> 0]
Url(url) == [t |-> "url", u |-> url, n |-> 0]           \* url as plain text
Img(url) == [t |-> "img", u |-> url, n |-> 0]           \* ![alt](url) written by the agent
Heading == [t |-> "heading", u |-> "-", n |-> 0]        \* the gallery heading
Entry(idx, url) == [t |-> "entry", u |-> url, n |-> idx]  \* **idx. desc** ![desc](url)
Notification == [t |-> "notification", u |-> "-", n |-> 0]

TextTokens == {Word, Url("u1"), Url("u2"), Img("u1")}

RECURSIVE SeqsUpTo(_, _)
SeqsUpTo(S, k) ==
    IF k = 0 THEN {<<>>}
    ELSE LET shorter == SeqsUpTo(S, k - 1)
         IN  shorter \cup {Append(s, x) : s \in {q \in shorter : Len(q) = k - 1}, x \in S}

Texts == SeqsUpTo(TextTokens, MaxLen)

RECURSIVE Concat(_)
Concat(seqs) == IF seqs = <<>> THEN <<>> ELSE Head(seqs) \o Concat(Tail(seqs))

Occurrences(url, text) == {i \in 1..Len(text) : text[i].u = url}
Occurs(url, text) == Occurrences(url, text) # {}
Elems(seq) == {seq[i] : i \in 1..Len(seq)}

(***************************************************************************)
(* Configuration and inputs.                                               *)
(***************************************************************************)
ValveSettings ==
    [ENABLE_PRESIGNED_URLS : BOOLEAN,
     credentials : BOOLEAN,              \* DO_SPACES_ACCESS_KEY and _SECRET_KEY both set
     MAX_IMAGES_PER_RESPONSE : 0..MaxImages,
     ENABLE_KB_IMAGE_DETECTION : BOOLEAN,
     ENABLE_SYSTEM_NOTIFICATION : BOOLEAN]

SignOutcomes == {"ok", "noparse", "raises"}
QuietEnv == [boto |-> TRUE, sign |-> [u \in DoSpacesUrls |-> "ok"]]
\* When boto3.client raises, no signing call is made: its outcomes are left out.
Envs == {e \in [boto : BOOLEAN, sign : [DoSpacesUrls -> SignOutcomes]] :
            e.boto \/ e.sign = QuietEnv.sign}

Histories == {<<"user">>, <<"user", "assistant", "user">>}
Bodies == [messages : Histories, stream : BOOLEAN]

DataLine(content) == [kind |-> "data", content |-> content]   \* data: {"choices":[{"delta":{"content":..}}]}
EmptyLine == [kind |-> "empty", content |-> <<>>]             \* b'' between two events
DoneLine == [kind |-> "done", content |-> <<>>]               \* data: [DONE]
StreamLines == {DataLine(<<tok>>) : tok \in TextTokens}
Streams == {s \o tail : s \in SeqsUpTo(StreamLines, MaxLines), tail \in {<<>>, <<DoneLine>>}}

NoJson == [choices |-> <<>>, finish_reason |-> "-"]
Completions == {[choices |-> <<t>>, finish_reason |-> "stop"] : t \in Texts} \cup {NoJson}

(***************************************************************************)
(* Signing: _get_s3_client, _needs_signing, _extract_bucket_and_key and    *)
(* _generate_presigned_url.  v is the valves, e the environment, client    *)
(* the value of self._s3_client when the call starts.                      *)
(***************************************************************************)
get_s3_client(v, e, client) ==
    IF client # None THEN client
    ELSE IF ~v.credentials THEN None
    ELSE IF e.boto THEN S3Handle        \* boto3.client(...) returned
    ELSE None                           \* boto3.client(...) raised

\* Variant: a URL that already carries a signature is signed again.
NeedsSigningAgain(v, url) ==
    IF ~v.ENABLE_PRESIGNED_URLS THEN FALSE
    ELSE IF ~v.credentials THEN FALSE
    ELSE IsDoSpaces(url)

needs_signing(v, url) ==
    IF ~v.ENABLE_PRESIGNED_URLS THEN FALSE
    ELSE IF ~v.credentials THEN FALSE
    ELSE IF HasSignature(url) THEN FALSE
    ELSE IsDoSpaces(url)

\* TRUE when a bucket and a key come out of the URL.
extract_bucket_and_key(e, url) ==
    IF url \in DoSpacesUrls THEN e.sign[url] # "noparse" ELSE FALSE

\* Variant: when the signing call raises, the unsigned URL is handed back.
GeneratePresignedUrlOrOriginal(v, e, client, url) ==
    LET s3 == get_s3_client(v, e, client)
    IN  IF s3 = None THEN [url |-> None, client |-> s3]
        ELSE IF e.sign[url] # "ok" THEN [url |-> url, client |-> s3]
        ELSE [url |-> SignedUrl(url), client |-> s3]

\* The signed URL or None, and self._s3_client after the call.
generate_presigned_url(v, e, client, url) ==
    LET s3 == get_s3_client(v, e, client)
    IN  IF s3 = None THEN [url |-> None, client |-> s3]
        ELSE IF ~extract_bucket_and_key(e, url) THEN [url |-> None, client |-> s3]
        ELSE IF e.sign[url] = "raises" THEN [url |-> None, client |-> s3]
        ELSE [url |-> SignedUrl(url), client |-> s3]

(***************************************************************************)
(* _extract_image_urls.                                                    *)
(***************************************************************************)
\* pattern.findall(text): the URLs the image pattern matches, in text order.
RECURSIVE FindAll(_)
FindAll(text) ==
    IF text = <<>> THEN <<>>
    ELSE LET tok == Head(text)
         IN  IF tok.t \in {"url", "img"} /\ tok.u \in DoSpacesUrls
             THEN <<tok.u>> \o FindAll(Tail(text))
             ELSE FindAll(Tail(text))

\* Variant: no URL is recognised as embedded.
NoEmbeddedUrls(text) == {}

\* set(re.findall(embedded_pattern, text)): the URLs inside ![...](url).
EmbeddedUrls(text) ==
    {text[i].u : i \in {j \in 1..Len(text) : text[j].t = "img" /\ text[j].u \in DoSpacesUrls}}

\* The test that ends the loop once the limit is reached.
LimitReached(v, urls) == Len(urls) >= v.MAX_IMAGES_PER_RESPONSE

\* What the loop remembers of a URL it has listed.
Remember(seen, original_url, url) == seen \cup {url}

\* The loop "for url in matches" from the state st = [seen, image_urls,
\* urls_to_remove, client] on.
RECURSIVE ExtractLoop(_, _, _, _, _)
ExtractLoop(v, e, embedded_urls, matches, st) ==
    IF matches = <<>> THEN st
    ELSE LET original_url == Head(matches)
             rest == Tail(matches)
         IN  IF original_url \in st.seen \/ original_url \in embedded_urls
             THEN ExtractLoop(v, e, embedded_urls, rest, st)
             ELSE IF needs_signing(v, original_url)
             THEN LET signed == generate_presigned_url(v, e, st.client, original_url)
                      listed == [seen |-> Remember(st.seen, original_url, signed.url),
                                 image_urls |-> Append(st.image_urls, signed.url),
                                 urls_to_remove |-> Append(st.urls_to_remove, original_url),
                                 client |-> signed.client]
                  IN  IF signed.url = None
                      THEN ExtractLoop(v, e, embedded_urls, rest,
                                       [st EXCEPT !.client = signed.client])
                      ELSE IF LimitReached(v, listed.image_urls) THEN listed
                      ELSE ExtractLoop(v, e, embedded_urls, rest, listed)
             ELSE LET listed == [st EXCEPT !.seen = Remember(@, original_url, original_url),
                                           !.image_urls = Append(@, original_url)]
                  IN  IF LimitReached(v, listed.image_urls) THEN listed
                      ELSE ExtractLoop(v, e, embedded_urls, rest, listed)

extract_image_urls(v, e, client, text) ==
    LET start == [seen |-> {}, image_urls |-> <<>>, urls_to_remove |-> <<>>,
                  client |-> client]
    IN  IF text = <<>> THEN start
        ELSE ExtractLoop(v, e, EmbeddedUrls(text), FindAll(text), start)

(***************************************************************************)
(* _remove_urls_from_text and _format_images_as_markdown.                  *)
(***************************************************************************)
\* Variant: text.replace(url, placeholder, 1), the first occurrence only.
ReplaceFirst(text, url) ==
    [i \in 1..Len(text) |->
        IF text[i].u = url /\ \A j \in 1..(i - 1) : text[j].u # url
        THEN [text[i] EXCEPT !.u = PlaceholderText] ELSE text[i]]

\* text.replace(url, "[image will be displayed below]")
Replace(text, url) ==
    [i \in 1..Len(text) |->
        IF text[i].u = url THEN [text[i] EXCEPT !.u = PlaceholderText] ELSE text[i]]

RECURSIVE remove_urls_from_text(_, _)
remove_urls_from_text(text, urls) ==
    IF urls = <<>> THEN text
    ELSE remove_urls_from_text(Replace(text, Head(urls)), Tail(urls))

format_images_as_markdown(urls) ==
    IF urls = <<>> THEN <<>>
    ELSE <<Heading>> \o [idx \in 1..Len(urls) |-> Entry(idx, urls[idx])]

\* Variant: every message is counted, whatever its role.
MessageCount(request_body) == Len(request_body.messages)

\* len([m for m in messages if m.get("role") == "assistant"])
assistant_count(request_body) ==
    Cardinality({i \in 1..Len(request_body.messages) : request_body.messages[i] = "assistant"})

NotificationDue(v, request_body) ==
    assistant_count(request_body) = 0 /\ v.ENABLE_SYSTEM_NOTIFICATION

(***************************************************************************)
(* _add_enhancements_to_response (blocking path).                          *)
(***************************************************************************)
NoExtraction(client) ==
    [seen |-> {}, image_urls |-> <<>>, urls_to_remove |-> <<>>, client |-> client]

\* The message text with the private URLs redacted, before the gallery is added.
RedactedContent(content, x) ==
    IF x.urls_to_remove # <<>> THEN remove_urls_from_text(content, x.urls_to_remove)
    ELSE content

\* The message text with the gallery.
EnhancedContent(content, x) ==
    RedactedContent(content, x) \o format_images_as_markdown(x.image_urls)

add_enhancements_to_response(v, e, client, response_data, request_body) ==
    LET original_content ==
            IF response_data.choices # <<>> THEN response_data.choices[1] ELSE <<>>
        notified ==
            IF NotificationDue(v, request_body)
            THEN original_content \o <<Notification>> ELSE original_content
        x == IF v.ENABLE_KB_IMAGE_DETECTION /\ original_content # <<>>
             THEN extract_image_urls(v, e, client, original_content)
             ELSE NoExtraction(client)
        enhanced_content == EnhancedContent(notified, x)
    IN  [x |-> x,
         raised |-> enhanced_content # original_content /\ response_data.choices = <<>>,
         data |-> IF enhanced_content # original_content /\ response_data.choices # <<>>
                  THEN [response_data EXCEPT !.choices[1] = enhanced_content]
                  ELSE response_data]

(***************************************************************************)
(* _stream_with_enhancements (streaming path).                             *)
(***************************************************************************)
create_streaming_chunk(content) == DataLine(content)

\* What the read loop adds to accumulated_content for one line.
ChunkContent(chunk) == IF chunk.kind = "data" THEN chunk.content ELSE <<>>

\* Variant: the read loop also stops at the [DONE] line, leaving it unread.
ReadLoopEndsAtDone(iter) == IF iter = <<>> THEN TRUE ELSE Head(iter).kind = "done"

\* The read loop "for chunk in stream_iter" is left when the iterator is exhausted.
ReadLoopEnds(iter) == iter = <<>>

\* Variant: the upstream lines are passed on whatever was redacted.
RestreamUpstream(chunks, full_response, x) == chunks

\* Variant: the text is always re-streamed in synthetic chunks.
AlwaysSynthetic(chunks, full_response, x) ==
    [i \in 1..Len(RedactedContent(full_response, x)) |->
        DataLine(<<RedactedContent(full_response, x)[i]>>)]

\* The chunks that carry the response text: synthetic ones, one per unit of the
\* filtered text, when something was redacted, and the upstream lines otherwise.
Restream(chunks, full_response, x) ==
    LET filtered_response == RedactedContent(full_response, x)
    IN  IF filtered_response # full_response \/ x.urls_to_remove # <<>>
        THEN [i \in 1..Len(filtered_response) |-> DataLine(<<filtered_response[i]>>)]
        ELSE chunks

\* Variant: the gallery chunk is yielded before the notification chunk.
GalleryBeforeNotification(v, request_body, chunks, full_response, x) ==
    Restream(chunks, full_response, x)
    \o (IF x.image_urls # <<>>
        THEN <<create_streaming_chunk(format_images_as_markdown(x.image_urls))>>
        ELSE <<>>)
    \o (IF NotificationDue(v, request_body)
        THEN <<create_streaming_chunk(<<Notification>>)>> ELSE <<>>)

\* Everything the generator yields once the upstream stream has been read.
StreamOutput(v, request_body, chunks, full_response, x) ==
    Restream(chunks, full_response, x)
    \o (IF NotificationDue(v, request_body)
        THEN <<create_streaming_chunk(<<Notification>>)>> ELSE <<>>)
    \o (IF x.image_urls # <<>>
        THEN <<create_streaming_chunk(format_images_as_markdown(x.image_urls))>>
        ELSE <<>>)

(***************************************************************************)
(* The state machine.                                                      *)
(***************************************************************************)
NoBody == [messages |-> <<>>, stream |-> FALSE]
\* status 0: no answer (yet); text: the body of an answer that is no JSON ("-": none)
NoResponse == [lines |-> <<>>, json |-> NoJson, status |-> 0, text |-> "-"]
NoResult == [kind |-> "none", data |-> NoJson]
NoPayload == [messages |-> <<>>, stream |-> FALSE]
NoThreads == <<>>
NoTaskBody == [user |-> 0]

SigningActive(v) ==
    v.ENABLE_KB_IMAGE_DETECTION /\ v.ENABLE_PRESIGNED_URLS /\ v.credentials

Init ==
    /\ valves \in ValveSettings
    /\ s3_client = None
    /\ env = QuietEnv
    /\ pc = "idle"
    /\ body = NoBody
    /\ response = NoResponse
    /\ stream_iter = <<>>
    /\ all_chunks = <<>>
    /\ accumulated_content = <<>>
    /\ image_urls = <<>>
    /\ urls_to_remove = <<>>
    /\ pending = <<>>
    /\ emitted = <<>>
    /\ result = NoResult
    /\ impl = "v9"
    /\ task = None
    /\ task_body = NoTaskBody
    /\ payload = NoPayload
    /\ posts = 0
    /\ threads = NoThreads
    /\ clients = 0
    /\ candidates = <<>>
    /\ seen_urls = {}
    /\ trace = <<>>
    /\ inbound = NoBody

\* pipe(body) with no task: _handle_chat_completion builds the payload.  The
\* environment of the invocation is fixed here; it is only looked at when URLs
\* are signed.
Pipe(b, e) ==
    /\ pc = "idle"
    /\ SigningActive(valves) \/ e = QuietEnv
    /\ body' = b
    /\ env' = e
    /\ pc' = "post"
    /\ response' = NoResponse
    /\ stream_iter' = <<>>
    /\ all_chunks' = <<>>
    /\ accumulated_content' = <<>>
    /\ image_urls' = <<>>
    /\ urls_to_remove' = <<>>
    /\ pending' = <<>>
    /\ emitted' = <<>>
    /\ result' = NoResult
    /\ payload' = [messages |-> b.messages, stream |-> b.stream]
    /\ posts' = posts + 1
    /\ inbound' = b
    /\ UNCHANGED <<valves, s3_client, impl, task, task_body, threads, clients,
                   candidates, seen_urls, trace>>

\* requests.post(..., stream=True) answered: the generator is returned.
PostStreaming(lines) ==
    /\ pc = "post"
    /\ body.stream
    /\ response' = [lines |-> lines, json |-> NoJson, status |-> 200, text |-> "-"]
    /\ stream_iter' = lines
    /\ result' = [kind |-> "stream", data |-> NoJson]
    /\ pc' = "reading"
    /\ UNCHANGED <<valves, s3_client, env, body, all_chunks, accumulated_content,
                   image_urls, urls_to_remove, pending, emitted>>
    /\ UNCHANGED <<impl, task, task_body, payload, posts, threads, clients,
                   candidates, seen_urls, trace, inbound>>

\* requests.post answered with a JSON completion: enhanced and returned.
PostBlocking(response_data) ==
    /\ pc = "post"
    /\ ~body.stream
    /\ LET r == add_enhancements_to_response(valves, env, s3_client, response_data, body)
       IN  /\ response' = [lines |-> <<>>, json |-> response_data, status |-> 200, text |-> "-"]
           /\ s3_client' = r.x.client
           /\ image_urls' = r.x.image_urls
           /\ urls_to_remove' = r.x.urls_to_remove
           /\ result' = IF r.raised THEN [kind |-> "error", data |-> NoJson]
                        ELSE [kind |-> "completion", data |-> r.data]
    /\ pc' = "done"
    /\ UNCHANGED <<valves, env, body, stream_iter, all_chunks, accumulated_content,
                   pending, emitted>>
    /\ UNCHANGED <<impl, task, task_body, payload, posts, threads, clients,
                   candidates, seen_urls, trace, inbound>>

\* One turn of the read loop.
ReadChunk ==
    /\ pc = "reading"
    /\ ~ReadLoopEnds(stream_iter)
    /\ LET chunk == Head(stream_iter)
       IN  /\ all_chunks' = Append(all_chunks, chunk)
           /\ accumulated_content' =
                 IF ChunkContent(chunk) # <<>>
                 THEN Append(accumulated_content, ChunkContent(chunk))
                 ELSE accumulated_content
    /\ stream_iter' = Tail(stream_iter)
    /\ UNCHANGED <<valves, s3_client, env, pc, body, response, image_urls,
                   urls_to_remove, pending, emitted, result>>
    /\ UNCHANGED <<impl, task, task_body, payload, posts, threads, clients,
                   candidates, seen_urls, trace, inbound>>

\* The read loop is over: extract, filter and line up what will be yielded.
Enhance ==
    /\ pc = "reading"
    /\ ReadLoopEnds(stream_iter)
    /\ LET full_response == Concat(accumulated_content)
           x == IF valves.ENABLE_KB_IMAGE_DETECTION /\ full_response # <<>>
                THEN extract_image_urls(valves, env, s3_client, full_response)
                ELSE NoExtraction(s3_client)
       IN  /\ s3_client' = x.client
           /\ image_urls' = x.image_urls
           /\ urls_to_remove' = x.urls_to_remove
           /\ pending' = StreamOutput(valves, body, all_chunks, full_response, x)
    /\ pc' = "yielding"
    /\ UNCHANGED <<valves, env, body, response, stream_iter, all_chunks,
                   accumulated_content, emitted, result>>
    /\ UNCHANGED <<impl, task, task_body, payload, posts, threads, clients,
                   candidates, seen_urls, trace, inbound>>

\* The caller pulls one chunk.
Yield ==
    /\ pc = "yielding"
    /\ pending # <<>>
    /\ emitted' = Append(emitted, Head(pending))
    /\ pending' = Tail(pending)
    /\ UNCHANGED <<valves, s3_client, env, pc, body, response, stream_iter,
                   all_chunks, accumulated_content, image_urls, urls_to_remove, result>>
    /\ UNCHANGED <<impl, task, task_body, payload, posts, threads, clients,
                   candidates, seen_urls, trace, inbound>>

\* The generator is exhausted.
StopIteration ==
    /\ pc = "yielding"
    /\ pending = <<>>
    /\ pc' = "done"
    /\ UNCHANGED <<valves, s3_client, env, body, response, stream_iter, all_chunks,
                   accumulated_content, image_urls, urls_to_remove, pending, emitted,
                   result>>
    /\ UNCHANGED <<impl, task, task_body, payload, posts, threads, clients,
                   candidates, seen_urls, trace, inbound>>

Next ==
    \/ \E b \in Bodies, e \in Envs : Pipe(b, e)
    \/ \E lines \in Streams : PostStreaming(lines)
    \/ \E response_data \in Completions : PostBlocking(response_data)
    \/ ReadChunk
    \/ Enhance
    \/ Yield
    \/ StopIteration

Spec == Init /\ [][Next]_vars

(***************************************************************************)
(* What the caller has been given, and what the upstream sent.             *)
(***************************************************************************)
\* The text the agent produced: the content of the lines of the stream, or
\* the message of the completion.
UpstreamText ==
    IF body.stream
    THEN Concat([i \in 1..Len(response.lines) |-> ChunkContent(response.lines[i])])
    ELSE IF response.json.choices # <<>> THEN response.json.choices[1] ELSE <<>>

\* The concatenation of the content of the chunks emitted so far.
EmittedText == Concat([i \in 1..Len(emitted) |-> ChunkContent(emitted[i])])

\* The message content returned by the blocking path.
ReturnedContent ==
    IF result.kind = "completion" /\ result.data.choices # <<>>
    THEN result.data.choices[1] ELSE <<>>

OutputText == IF body.stream THEN EmittedText ELSE ReturnedContent

\* The entries of the gallery of a text, and the text in front of the gallery.
GalleryEntries(text) == SelectSeq(text, LAMBDA tok : tok.t = "entry")
GalleryUrls(text) == {tok.u : tok \in Elems(GalleryEntries(text))}
BeforeGallery(text) == SelectSeq(text, LAMBDA tok : tok.t \notin {"heading", "entry"})
AgentPart(text) == SelectSeq(text, LAMBDA tok : tok.t \in {"word", "url", "img"})

\* url is written in the text as plain text / inside ![alt](url).
PlainOccurs(url, text) == Url(url) \in Elems(text)
ImageOccurs(url, text) == Img(url) \in Elems(text)
\* The place of the first occurrence of url in the text (0: none).
FirstOccurrence(url, text) ==
    IF Occurs(url, text)
    THEN CHOOSE i \in Occurrences(url, text) : \A j \in Occurrences(url, text) : i <= j
    ELSE 0
\* The URL of the upstream text that a gallery URL stands for.
OriginalOf(url) ==
    IF url \in SignedUrls THEN CHOOSE u \in DoSpacesUrls : SignedUrl(u) = url ELSE url

Finished == pc = "done" /\ result.kind \in {"stream", "completion"}

\* The signing capability succeeds on url in this invocation: a client can be
\* had (one is cached or boto3 builds one), the bucket and key parse and the
\* signing call returns.
SigningSucceeds(url) == (s3_client # None \/ env.boto) /\ env.sign[url] = "ok"

(***************************************************************************)
(* Claims about the response enhancer of the v9 pipe.                      *)
(***************************************************************************)

\* C1: on the streaming path, with signing enabled, credentials configured and
\* image detection on, the text emitted so far never shows an unsigned
\* digitaloceanspaces URL of the upstream text, whether its signing
\* succeeded, failed or was never attempted.
C1_NoPrivateUrlInStream ==
    (body.stream /\ SigningActive(valves))
        => \A u \in DoSpacesUrls : Occurs(u, UpstreamText) => ~Occurs(u, EmittedText)

\* C2: on the blocking path, with signing enabled and a signing capability that
\* succeeds on every URL, no matched private URL of the upstream text occurs
\* unsigned in the returned content, and its signed form is in the gallery.
C2_BlockingRedactsAndSignsAll ==
    (Finished /\ ~body.stream /\ SigningActive(valves) /\ env = QuietEnv)
        => \A u \in DoSpacesUrls :
              Occurs(u, UpstreamText)
                  => /\ ~Occurs(u, ReturnedContent)
                     /\ SignedUrl(u) \in GalleryUrls(ReturnedContent)

\* The upstream text has one private URL, written once as plain text, that the
\* configuration makes signable and whose signing succeeds.
OneSignableUrl(u) ==
    /\ body.stream
    /\ valves.ENABLE_KB_IMAGE_DETECTION
    /\ Cardinality({i \in 1..Len(UpstreamText) : UpstreamText[i].t # "word"}) = 1
    /\ PlainOccurs(u, UpstreamText)
    /\ needs_signing(valves, u)
    /\ SigningSucceeds(u)

\* C3: streaming a text with exactly one private signable URL, no embedded
\* image and a signing that succeeds: what is emitted before the gallery has
\* no occurrence of the URL and exactly one placeholder, and the last chunk
\* emitted is the gallery chunk with the signed URL in Markdown image syntax.
C3_StreamingRedaction ==
    \A u \in DoSpacesUrls :
        (pc = "done" /\ OneSignableUrl(u))
            => /\ emitted # <<>>
               /\ emitted[Len(emitted)] =
                     create_streaming_chunk(<<Heading, Entry(1, SignedUrl(u))>>)
               /\ LET before == Concat([i \in 1..(Len(emitted) - 1) |->
                                            ChunkContent(emitted[i])])
                  IN  /\ ~Occurs(u, before)
                      /\ Cardinality(Occurrences(PlaceholderText, before)) = 1
                      /\ GalleryEntries(before) = <<>>

C3_Witness ==
    \E u \in DoSpacesUrls :
        /\ pc = "done" /\ OneSignableUrl(u)
        /\ Len(UpstreamText) = MaxLines
        /\ Len(emitted) > 1

\* C4: on the streaming path nothing is emitted before the upstream stream
\* has been read to its end.
C4_BufferThenStream ==
    emitted # <<>> => (stream_iter = <<>> /\ all_chunks = response.lines)

C4_Witness ==
    /\ pc = "yielding"
    /\ Len(response.lines) > 1
    /\ emitted # <<>>
    /\ urls_to_remove = <<>>

\* Signing url is attempted in this invocation and fails.
SigningFails(url) ==
    /\ pc = "done"
    /\ valves.ENABLE_KB_IMAGE_DETECTION
    /\ PlainOccurs(url, UpstreamText) /\ ~ImageOccurs(url, UpstreamText)
    /\ needs_signing(valves, url)
    /\ ~SigningSucceeds(url)

\* The text without the places where url is written.
Without(url, text) == SelectSeq(text, LAMBDA tok : tok.u # url)

\* C5: a candidate whose signing fails (no client, bucket/key not parseable,
\* signing call raises) is not in the gallery and not on the redaction list,
\* nothing is raised, and the other candidates are listed and redacted
\* exactly as for the same text without the failed URL.
C5_FailedSigningDropsOnlyThatImage ==
    \A u \in DoSpacesUrls :
        SigningFails(u)
            => /\ result.kind \in {"stream", "completion"}
               /\ {u, SignedUrl(u)} \cap GalleryUrls(OutputText) = {}
               /\ u \notin Elems(urls_to_remove)
               /\ LET other == extract_image_urls(valves, env, None,
                                                  Without(u, UpstreamText))
                  IN  /\ image_urls = other.image_urls
                      /\ urls_to_remove = other.urls_to_remove
                      /\ GalleryEntries(OutputText) =
                            GalleryEntries(format_images_as_markdown(other.image_urls))

C5_Witness ==
    \E u \in DoSpacesUrls :
        /\ SigningFails(u)
        /\ env.boto
        /\ GalleryUrls(OutputText) \cap SignedUrls # {}

\* C6: a URL that the upstream text already shows as ![alt](url) is not
\* listed in the gallery, signed or unsigned, on either path.
C6_EmbeddedNotInGallery ==
    \A u \in DoSpacesUrls :
        ImageOccurs(u, UpstreamText)
            => {u, SignedUrl(u)} \cap GalleryUrls(OutputText) = {}

C6_Witness ==
    /\ pc = "done"
    /\ body.stream
    /\ \E u \in DoSpacesUrls : ImageOccurs(u, UpstreamText)
    /\ GalleryUrls(OutputText) # {}

\* C7: the gallery lists at most MAX_IMAGES_PER_RESPONSE images, for every
\* non-negative value of the valve.
C7_GalleryWithinLimit ==
    Len(GalleryEntries(OutputText)) <= valves.MAX_IMAGES_PER_RESPONSE

\* C8: each distinct URL of the text has at most one gallery entry and at most
\* one entry on the redaction list.
C8_OneEntryPerUrl ==
    \A u \in DoSpacesUrls :
        /\ Cardinality({i \in 1..Len(image_urls) : OriginalOf(image_urls[i]) = u}) <= 1
        /\ Cardinality({i \in 1..Len(urls_to_remove) : urls_to_remove[i] = u}) <= 1

\* C9: if URL a first occurs before URL b in the text and both are in the
\* gallery, a's entry has the smaller number.
C9_GalleryInFirstOccurrenceOrder ==
    LET gallery == GalleryEntries(OutputText)
    IN  \A i, j \in 1..Len(gallery) :
            LET a == OriginalOf(gallery[i].u)
                b == OriginalOf(gallery[j].u)
            IN  (a # b /\ FirstOccurrence(a, UpstreamText) < FirstOccurrence(b, UpstreamText))
                    => gallery[i].n < gallery[j].n

\* The text with every occurrence of the given URLs replaced by the placeholder.
Redacted(text, urls) ==
    [i \in 1..Len(text) |->
        IF text[i].u \in urls THEN [text[i] EXCEPT !.u = PlaceholderText] ELSE text[i]]

\* C10: every occurrence of every URL on the redaction list is replaced by the
\* placeholder before the gallery is appended: the text in front of the
\* gallery shows no URL that was signed, and the gallery holds the listed
\* URLs, the signed ones unaltered.
C10_RedactionBeforeGallery ==
    pc = "done"
        => /\ AgentPart(BeforeGallery(OutputText)) =
                 Redacted(UpstreamText, Elems(urls_to_remove))
           /\ \A u \in DoSpacesUrls :
                 SignedUrl(u) \in Elems(image_urls)
                     => u \in Elems(urls_to_remove) /\ ~Occurs(u, BeforeGallery(OutputText))
           /\ OutputText = BeforeGallery(OutputText)
                              \o (IF image_urls = <<>> THEN <<>> ELSE <<Heading>>)
                              \o [i \in 1..Len(image_urls) |-> Entry(i, image_urls[i])]

C10_Witness ==
    /\ pc = "done"
    /\ \E u \in Elems(urls_to_remove) : Cardinality(Occurrences(u, UpstreamText)) > 1
    /\ Cardinality(Occurrences(PlaceholderText, OutputText)) > 1

(***************************************************************************)
(* Task mode: what the agent answers to a title or follow-up request, and  *)
(* _extract_follow_ups, _extract_title, _fallback_title and                *)
(* _fallback_follow_ups.  The two pipes that have a task extractor         *)
(* (do-function-pipe-with-kb-images.py and do-function-pipe.py) carry the  *)
(* same code for it.  A plain answer is a sequence of lines; a line is     *)
(* known by its length once numbering and bullets are stripped.  A JSON    *)
(* answer is an object with one key.                                       *)
(***************************************************************************)
TITLE_GENERATION == "title_generation"
FOLLOW_UP_GENERATION == "follow_up_generation"
OtherTask == "tags_generation"
Tasks == {None, TITLE_GENERATION, FOLLOW_UP_GENERATION, OtherTask}

Line(n) == [len |-> n]
Question == Line(20)      \* a line that is kept: more than 5 characters
ShortLine == Line(3)      \* a line that is skipped: 5 characters or fewer
TaskLines == {Question, ShortLine}

PlainContent(lines) ==
    [form |-> "plain", lines |-> lines, key |-> "-", list |-> FALSE, value |-> <<>>]
\* {"key": value}; list tells whether value is a JSON list.
JsonContent(key, list, value) ==
    [form |-> "json", lines |-> <<>>, key |-> key, list |-> list, value |-> value]
QuestionList(n) == [i \in 1..n |-> Question]

TaskContents ==
    {PlainContent(lines) : lines \in SeqsUpTo(TaskLines, MaxFollowUps)}
    \cup {JsonContent("follow_ups", TRUE, QuestionList(n)) : n \in 0..MaxFollowUps}
    \cup {JsonContent("follow_ups", FALSE, <<Question>>),
          JsonContent("other", FALSE, <<Question>>),
          JsonContent("title", FALSE, <<Question>>)}

EmptyContent == PlainContent(<<>>)

\* len(content) of a plain answer: the lines and the newlines between them.
RECURSIVE SumLen(_)
SumLen(lines) == IF lines = <<>> THEN 0 ELSE Head(lines).len + SumLen(Tail(lines))
ContentLen(content) ==
    IF content.form = "json" THEN 30
    ELSE IF content.lines = <<>> THEN 0
    ELSE SumLen(content.lines) + Len(content.lines) - 1

\* __task_body__ by the length of its last user message; 0: no task body, or
\* no user message in it.
TaskBodies == {NoTaskBody, [user |-> 120]}

NewChat == [text |-> "New Chat", len |-> 8, dots |-> FALSE]

Min(a, b) == IF a <= b THEN a ELSE b

\* _fallback_title by its outcome alone: which text, and how long.
fallback_title_summary(tb) ==
    IF tb.user = 0 THEN NewChat
    ELSE [text |-> "user message", len |-> Min(tb.user, 100), dots |-> FALSE]

fallback_follow_ups(tb) == <<>>

\* _extract_title by its outcome alone: which text, and how long.
extract_title_summary(content, tb) ==
    IF content = EmptyContent THEN fallback_title_summary(tb)
    ELSE IF content.form = "json" /\ content.key = "title"
    THEN [text |-> "parsed title", len |-> SumLen(content.value), dots |-> FALSE]
    ELSE IF ContentLen(content) > 100
    THEN [text |-> "content", len |-> 97 + 3, dots |-> TRUE]
    ELSE [text |-> "content", len |-> ContentLen(content), dots |-> FALSE]

\* cleaned and len(cleaned) > 5
Kept(line) == line.len > 5

\* Variant: the list of a JSON answer is returned whole.
Whole(follow_ups) == follow_ups

\* follow_ups[:5]
FirstFive(follow_ups) == SubSeq(follow_ups, 1, Min(Len(follow_ups), 5))

\* The line loop: append the kept line, leave the loop at five entries.
RECURSIVE ParseLines(_, _)
ParseLines(lines, follow_ups) ==
    IF lines = <<>> THEN follow_ups
    ELSE LET appended == IF Kept(Head(lines)) THEN Append(follow_ups, Head(lines))
                         ELSE follow_ups
         IN  IF Len(appended) >= 5 THEN appended
             ELSE ParseLines(Tail(lines), appended)

extract_follow_ups(content, tb) ==
    IF content = EmptyContent THEN fallback_follow_ups(tb)
    ELSE IF content.form = "json" /\ content.key = "follow_ups" /\ content.list
    THEN FirstFive(content.value)
    ELSE LET \* a JSON answer is one line that starts with "{": it is skipped
             follow_ups == IF content.form = "json" THEN <<>>
                           ELSE ParseLines(content.lines, <<>>)
         IN  IF follow_ups = <<>> THEN fallback_follow_ups(tb) ELSE follow_ups

(***************************************************************************)
(* The relay of the three pipes: pipe, _handle_task_model_call,            *)
(* _handle_chat_completion, _invoke_function and _call_do_agent.           *)
(*   "v9"     src/pipes/do-function-pipe-with-kb-images.py                 *)
(*   "json"   src/pipes/do-function-pipe.py                                *)
(*   "simple" src/pipes/do-function-pipe-simple-working.py                 *)
(***************************************************************************)
Impls == {"v9", "json", "simple"}
AgentUrl == "https://agent.do-ai.run"

\* The valves an instance of each pipe has; a valve the pipe does not have is
\* held at FALSE.  Signing is left off: it is the subject of Spec.
RelayValves(i) ==
    {v \in [DIGITALOCEAN_FUNCTION_URL : {"", AgentUrl},
            ENABLE_STREAMING : BOOLEAN,
            ENABLE_SYSTEM_NOTIFICATION : BOOLEAN,
            ENABLE_KB_IMAGE_DETECTION : BOOLEAN,
            ENABLE_IMAGE_DETECTION : BOOLEAN,
            ENABLE_PRESIGNED_URLS : {FALSE},
            credentials : {FALSE},
            MAX_IMAGES_PER_RESPONSE : {MaxImages}] :
        /\ i # "v9" => ~v.ENABLE_KB_IMAGE_DETECTION
        /\ i # "simple" => ~v.ENABLE_IMAGE_DETECTION
        /\ i = "simple" => ~v.ENABLE_STREAMING /\ ~v.ENABLE_SYSTEM_NOTIFICATION}

\* keyword: the last user message holds a keyword of IMAGE_MAP (simple pipe).
RelayBodies(i) ==
    {b \in [messages : Histories, stream : BOOLEAN, keyword : BOOLEAN] :
        i # "simple" => ~b.keyword}

RelayTokens == {Word, Url("u1")}
RelayTexts == SeqsUpTo(RelayTokens, MaxLines)
RelayCompletions ==
    {[choices |-> <<t>>, finish_reason |-> "stop"] : t \in RelayTexts} \cup {NoJson}
TaskCompletions ==
    {[choices |-> <<c>>, finish_reason |-> "stop"] : c \in TaskContents} \cup {NoJson}
RelayStreams ==
    {s \o tail : s \in SeqsUpTo({DataLine(<<tok>>) : tok \in RelayTokens}, MaxLines),
                 tail \in {<<>>, <<DoneLine>>}}
NonJsonTexts == {"", "<html>"}           \* response.text of a 2xx answer that is no JSON

TitlePrompt == "system: Generate a brief, descriptive title for this conversation."
FollowUpPrompt == "system: Generate 3-5 follow-up questions based on this conversation."

\* Variant: the inbound messages are sent as they are.
NoPrompt(t, messages) == messages

\* _invoke_function: the messages sent for a task.
TaskMessages(t, messages) ==
    IF t = TITLE_GENERATION THEN <<TitlePrompt>> \o messages
    ELSE IF t = FOLLOW_UP_GENERATION THEN <<FollowUpPrompt>> \o messages
    ELSE messages

\* Variant: the task request is built like a chat request.
StreamAsAsked(v, b) == b.stream /\ v.ENABLE_STREAMING

\* "stream": False in the payload of _invoke_function.
TaskStream(v, b) == FALSE

\* The payload of the POST.
RequestPayload(i, v, b, t) ==
    IF i = "simple" THEN [messages |-> b.messages, stream |-> FALSE]
    ELSE IF t # None
    THEN [messages |-> TaskMessages(t, b.messages), stream |-> TaskStream(v, b)]
    ELSE [messages |-> b.messages, stream |-> b.stream /\ v.ENABLE_STREAMING]

\* Variant: the endpoint is not looked at before the request is sent.
EndpointUnchecked(v) == TRUE

\* "if not self.valves.DIGITALOCEAN_FUNCTION_URL: raise ValueError(...)"
EndpointSet(v) == v.DIGITALOCEAN_FUNCTION_URL # ""

Raised(exception) == [kind |-> "error", data |-> [exception |-> exception]]
JsonDumps(key, value) == [kind |-> "task", data |-> [key |-> key, value |-> value]]
\* Variant: an unknown sub-task is answered with the default title.
DefaultTitleObject == JsonDumps("title", NewChat)

EmptyObject == [kind |-> "task", data |-> [key |-> "", value |-> <<>>]]    \* "{}"

\* _handle_task_model_call once _invoke_function has returned raw_response.
handle_task_model_call(t, tb, raw_response) ==
    LET content == IF raw_response.choices # <<>> THEN raw_response.choices[1]
                   ELSE EmptyContent
    IN  IF t = TITLE_GENERATION THEN JsonDumps("title", extract_title_summary(content, tb))
        ELSE IF t = FOLLOW_UP_GENERATION
        THEN JsonDumps("follow_ups", extract_follow_ups(content, tb))
        ELSE EmptyObject

\* SYSTEM_NOTIFICATION_MESSAGE of do-function-pipe.py, in pieces of 50 characters.
MessagePart(i) == [t |-> "notification", u |-> "-", n |-> i]
SYSTEM_NOTIFICATION_MESSAGE == <<MessagePart(1), MessagePart(2)>>

\* do-function-pipe.py: _add_system_notification_if_needed, called when the
\* valve ENABLE_SYSTEM_NOTIFICATION is set.
add_system_notification_if_needed(v, response_data, request_body) ==
    IF v.ENABLE_SYSTEM_NOTIFICATION /\ assistant_count(request_body) = 0
       /\ response_data.choices # <<>>
    THEN [response_data EXCEPT !.choices[1] = @ \o SYSTEM_NOTIFICATION_MESSAGE]
    ELSE response_data

\* do-function-pipe.py: what _stream_with_system_notification yields once the
\* upstream lines have been passed on.
\* Variant: only the first 50 characters of the message are sent.
FirstPieceOnly(v, request_body) ==
    IF v.ENABLE_SYSTEM_NOTIFICATION /\ assistant_count(request_body) = 0
    THEN <<DataLine(<<SYSTEM_NOTIFICATION_MESSAGE[1]>>)>>
    ELSE <<>>

notification_chunks(v, request_body) ==
    IF v.ENABLE_SYSTEM_NOTIFICATION /\ assistant_count(request_body) = 0
    THEN [i \in 1..Len(SYSTEM_NOTIFICATION_MESSAGE) |->
             DataLine(<<SYSTEM_NOTIFICATION_MESSAGE[i]>>)]
    ELSE <<>>

\* The simple pipe: the completion _call_do_agent makes of a failure, and what
\* pipe does with the completion in chat mode.
ErrorText == [t |-> "error", u |-> "-", n |-> 0]
\* Variant: the failure is answered like a completed turn.
StopCompletion == [choices |-> <<<<ErrorText>>>>, finish_reason |-> "stop"]

\* simple pipe, _call_do_agent: the completion returned for a failed call, with
\* the content "Error: ..." and the finish_reason "error".
ErrorCompletion == [choices |-> <<<<ErrorText>>>>, finish_reason |-> "error"]
RevenueImage == "Revenue_Graphs.jpg"

simple_pipe(v, b, t, response_data) ==
    IF t # None THEN [kind |-> "completion", data |-> response_data]
    ELSE IF v.ENABLE_IMAGE_DETECTION /\ b.keyword
    THEN IF response_data.choices = <<>> THEN Raised("IndexError")
         ELSE [kind |-> "completion",
               data |-> [response_data EXCEPT
                            !.choices[1] = @ \o <<Heading, Entry(1, RevenueImage)>>]]
    ELSE [kind |-> "completion", data |-> response_data]

\* Variant: every pipe answers a failed request with an error completion.
ErrorAsCompletion(i, v, b, t) == simple_pipe(v, b, t, ErrorCompletion)

\* "except requests.RequestException as exc: ... raise RuntimeError(error_msg)";
\* the simple pipe turns the failure into a completion.
request_failed(i, v, b, t) ==
    IF i = "simple" THEN simple_pipe(v, b, t, ErrorCompletion)
    ELSE Raised("RuntimeError")

\* The upstream can be reached: requests.post raises MissingSchema, sending
\* nothing, for the URL "/api/v1/chat/completions" of an empty endpoint (simple
\* pipe, which does not check the valve).
CanAnswer(v) == v.DIGITALOCEAN_FUNCTION_URL # ""

RelayInit ==
    /\ impl \in Impls
    /\ valves \in RelayValves(impl)
    /\ s3_client = None
    /\ env = QuietEnv
    /\ pc = "idle"
    /\ body = NoBody
    /\ response = NoResponse
    /\ stream_iter = <<>>
    /\ all_chunks = <<>>
    /\ accumulated_content = <<>>
    /\ image_urls = <<>>
    /\ urls_to_remove = <<>>
    /\ pending = <<>>
    /\ emitted = <<>>
    /\ result = NoResult
    /\ task = None
    /\ task_body = NoTaskBody
    /\ payload = NoPayload
    /\ posts = 0
    /\ threads = NoThreads
    /\ clients = 0
    /\ candidates = <<>>
    /\ seen_urls = {}
    /\ trace = <<>>
    /\ inbound = NoBody

relayKept == <<valves, s3_client, env, impl, threads, clients, candidates, seen_urls, trace, inbound>>
streamVars == <<stream_iter, all_chunks, accumulated_content, image_urls,
                urls_to_remove, pending, emitted>>

\* Variant: the system message of the task is inserted into the caller's list.
PromptInsertedInPlace(i, t, messages) ==
    IF i = "simple" THEN messages ELSE TaskMessages(t, messages)

\* body["messages"] once the request has been built: the payload takes the
\* caller's list (chat) or a new list "[{system message}, *messages]" (task),
\* and nothing is written to the caller's list.
InboundMessages(i, t, messages) == messages

\* pipe(body, __task__, __task_body__) up to requests.post: the endpoint check
\* of _handle_chat_completion and _invoke_function, then the request.
PipeCall(b, t, tb) ==
    /\ pc = "idle"
    /\ t = None => tb = NoTaskBody
    /\ body' = [b EXCEPT !.messages = InboundMessages(impl, t, b.messages)]
    /\ task' = t
    /\ task_body' = tb
    /\ IF impl # "simple" /\ ~EndpointSet(valves)
       THEN /\ result' = Raised("ValueError")
            /\ pc' = "done"
            /\ UNCHANGED <<payload, posts>>
       ELSE /\ payload' = RequestPayload(impl, valves, b, t)
            /\ posts' = posts + 1
            /\ pc' = "post"
            /\ UNCHANGED result
    /\ inbound' = b
    /\ UNCHANGED <<valves, s3_client, env, impl, threads, clients, candidates,
                   seen_urls, trace, streamVars, response>>

\* requests.post raises (how = "transport") or raise_for_status raises
\* (how = "status").
PostFails(how) ==
    /\ pc = "post"
    /\ how = "status" => CanAnswer(valves)
    /\ result' = request_failed(impl, valves, body, task)
    /\ response' = [NoResponse EXCEPT !.status = IF how = "status" THEN 500 ELSE 0]
    /\ pc' = "done"
    /\ UNCHANGED <<relayKept, streamVars, body, task, task_body, payload, posts>>

\* A 2xx answer to a request sent with "stream": true.
PostAnswersStream(lines) ==
    /\ pc = "post"
    /\ CanAnswer(valves)
    /\ payload.stream
    /\ response' = [lines |-> lines, json |-> NoJson, status |-> 200, text |-> "-"]
    /\ stream_iter' = lines
    /\ result' = [kind |-> "stream", data |-> NoJson]
    /\ pc' = IF impl = "v9" THEN "reading" ELSE "relaying"
    /\ UNCHANGED <<relayKept, all_chunks, accumulated_content, image_urls,
                   urls_to_remove, pending, emitted, body, task, task_body,
                   payload, posts>>

\* A 2xx answer with a JSON body to a request sent with "stream": false.
PostAnswersJson(response_data) ==
    /\ pc = "post"
    /\ CanAnswer(valves)
    /\ ~payload.stream
    /\ response' = [lines |-> <<>>, json |-> response_data, status |-> 200, text |-> "-"]
    /\ IF impl = "v9" /\ task = None
       THEN LET r == add_enhancements_to_response(valves, env, s3_client,
                                                  response_data, body)
            IN  /\ image_urls' = r.x.image_urls
                /\ urls_to_remove' = r.x.urls_to_remove
                /\ result' = IF r.raised THEN Raised("IndexError")
                             ELSE [kind |-> "completion", data |-> r.data]
       ELSE /\ result' =
                  IF impl = "simple"
                  THEN simple_pipe(valves, body, task, response_data)
                  ELSE IF task # None
                  THEN handle_task_model_call(task, task_body, response_data)
                  ELSE [kind |-> "completion",
                        data |-> add_system_notification_if_needed(valves, response_data, body)]
            /\ UNCHANGED <<image_urls, urls_to_remove>>
    /\ pc' = "done"
    /\ UNCHANGED <<relayKept, stream_iter, all_chunks, accumulated_content, pending,
                   emitted, body, task, task_body, payload, posts>>

\* A 2xx answer whose body is no JSON, to a request sent with "stream": false.
\* _invoke_function catches the ValueError of response.json().  In
\* _handle_chat_completion response.json() raises inside the try block: the
\* exception is a requests.RequestException (turned into RuntimeError) or a
\* plain ValueError, depending on the version of requests.  _call_do_agent
\* answers with its error completion.
PostAnswersText(text, exc) ==
    /\ pc = "post"
    /\ CanAnswer(valves)
    /\ ~payload.stream
    /\ response' = [lines |-> <<>>, json |-> NoJson, status |-> 200, text |-> text]
    /\ result' =
          IF impl = "simple" THEN simple_pipe(valves, body, task, ErrorCompletion)
          ELSE IF task # None THEN handle_task_model_call(task, task_body, NoJson)
          ELSE Raised(exc)
    /\ pc' = "done"
    /\ UNCHANGED <<relayKept, streamVars, body, task, task_body, payload, posts>>

\* do-function-pipe.py: "for chunk in stream_iter: yield chunk".
RelayChunk ==
    /\ pc = "relaying"
    /\ stream_iter # <<>>
    /\ emitted' = Append(emitted, Head(stream_iter))
    /\ stream_iter' = Tail(stream_iter)
    /\ UNCHANGED <<relayKept, all_chunks, accumulated_content, image_urls,
                   urls_to_remove, pending, pc, body, response, result, task,
                   task_body, payload, posts>>

\* do-function-pipe.py: the upstream stream is exhausted; with the valve
\* ENABLE_SYSTEM_NOTIFICATION unset the caller iterates response.iter_lines()
\* itself and nothing follows.
RelayEnd ==
    /\ pc = "relaying"
    /\ stream_iter = <<>>
    /\ pending' = notification_chunks(valves, body)
    /\ pc' = "yielding"
    /\ UNCHANGED <<relayKept, stream_iter, all_chunks, accumulated_content,
                   image_urls, urls_to_remove, emitted, body, response, result,
                   task, task_body, payload, posts>>

RelayNext ==
    \/ \E b \in RelayBodies(impl), t \in Tasks, tb \in TaskBodies : PipeCall(b, t, tb)
    \/ \E how \in {"transport", "status"} : PostFails(how)
    \/ \E lines \in RelayStreams : PostAnswersStream(lines)
    \/ \E response_data \in (IF task # None THEN TaskCompletions ELSE RelayCompletions) :
          PostAnswersJson(response_data)
    \/ \E text \in NonJsonTexts, exc \in {"RuntimeError", "JSONDecodeError"} :
          PostAnswersText(text, exc)
    \/ RelayChunk
    \/ RelayEnd
    \/ ReadChunk
    \/ Enhance
    \/ Yield
    \/ StopIteration

RelaySpec == RelayInit /\ [][RelayNext]_vars

(***************************************************************************)
(* Claims about the relay and the task extractor.                          *)
(***************************************************************************)
HasExtractor == impl \in {"v9", "json"}
FollowUpsReturned ==
    /\ HasExtractor
    /\ pc = "done"
    /\ task = FOLLOW_UP_GENERATION
    /\ result.kind = "task"

\* C11: the follow-up list returned by the follow-up task never has more than
\* five entries, whatever the upstream answered: a JSON object whose
\* follow_ups list has any length, plain lines, or nothing usable.
C11_AtMostFiveFollowUps ==
    FollowUpsReturned => Len(result.data.value) <= 5

\* The upstream answered with a JSON object whose follow_ups list has more than
\* five entries; five were returned.
C11_Witness ==
    /\ FollowUpsReturned
    /\ response.json.choices # <<>>
    /\ response.json.choices[1].form = "json"
    /\ response.json.choices[1].key = "follow_ups"
    /\ response.json.choices[1].list
    /\ Len(response.json.choices[1].value) > 5
    /\ Len(result.data.value) = 5

\* C12: whenever the task discriminator is not None, the request sent upstream
\* has its streaming flag false, whatever body.stream and ENABLE_STREAMING are,
\* and the invocation does not return a stream; in all three pipes.
C12_TaskNeverStreams ==
    task # None =>
        /\ posts > 0 => ~payload.stream
        /\ result.kind # "stream"

\* A task invocation whose body asks for a stream, on an instance with
\* streaming enabled, has sent its request and returned its result.
C12_Witness ==
    /\ task # None
    /\ body.stream
    /\ valves.ENABLE_STREAMING
    /\ posts = 1
    /\ pc = "done"
    /\ result.kind = "task"

\* The system message the pipe puts in front for a known sub-task.
PromptOf(t) == IF t = TITLE_GENERATION THEN TitlePrompt ELSE FollowUpPrompt

\* C13: in task mode of the v9 and JSON-aware pipes the messages sent upstream
\* are one fixed system message followed by the inbound messages in their
\* order when the sub-task is title or follow-up generation (a different text
\* for each), and the inbound messages alone when the sub-task is unknown.
C13_TaskMessages ==
    /\ TitlePrompt # FollowUpPrompt
    /\ (HasExtractor /\ task # None /\ posts > 0) =>
          IF task \in {TITLE_GENERATION, FOLLOW_UP_GENERATION}
          THEN /\ Len(payload.messages) = Len(body.messages) + 1
               /\ Head(payload.messages) = PromptOf(task)
               /\ Tail(payload.messages) = body.messages
          ELSE payload.messages = body.messages

\* A title request with a history of three messages has been sent.
C13_Witness ==
    /\ HasExtractor
    /\ task = TITLE_GENERATION
    /\ posts = 1
    /\ Len(body.messages) = 3
    /\ payload.messages = <<TitlePrompt>> \o body.messages

UnknownTaskDone == HasExtractor /\ task \notin {None, TITLE_GENERATION, FOLLOW_UP_GENERATION} /\ pc = "done"
ReturnedEmptyObject == result.kind = "task" /\ result.data.key = ""

ChatTurnDone ==
    /\ HasExtractor
    /\ task = None
    /\ valves.ENABLE_SYSTEM_NOTIFICATION
    /\ pc = "done"
    /\ result.kind \in {"stream", "completion"}

\* The output of the turn: the content of the emitted chunks, or of the
\* returned message.
RelayOutput == IF payload.stream THEN EmittedText ELSE ReturnedContent

\* The notification text of the pipe is part of the text.
NotificationIn(text) ==
    IF impl = "v9" THEN Notification \in Elems(text)
    ELSE \E i \in 1..Len(text) :
            /\ i + Len(SYSTEM_NOTIFICATION_MESSAGE) - 1 <= Len(text)
            /\ SubSeq(text, i, i + Len(SYSTEM_NOTIFICATION_MESSAGE) - 1)
                  = SYSTEM_NOTIFICATION_MESSAGE

FirstTurn == "assistant" \notin Elems(body.messages)

\* The upstream answer carries a message: it is a stream, or a completion with
\* a choice.
AnswerHasMessage == payload.stream \/ response.json.choices # <<>>

ConfigurationError == result.kind = "error" /\ result.data.exception = "ValueError"

\* C16: in the v9 and JSON-aware pipes, when the endpoint URL option is empty,
\* every invocation of pipe, in chat mode and in task mode, fails with a
\* configuration error and no HTTP request has been sent.
C16_NoEndpointNoRequest ==
    (HasExtractor /\ valves.DIGITALOCEAN_FUNCTION_URL = "") =>
        /\ posts = 0
        /\ pc # "idle" => (pc = "done" /\ ConfigurationError)

\* A task invocation on an instance without endpoint URL has failed.
C16_Witness ==
    /\ HasExtractor
    /\ valves.DIGITALOCEAN_FUNCTION_URL = ""
    /\ task = FOLLOW_UP_GENERATION
    /\ pc = "done"
    /\ ConfigurationError
    /\ posts = 0

RequestFailed == pc = "done" /\ posts = 1 /\ response.status # 200

\* C17: in the v9 and JSON-aware pipes one invocation sends at most one HTTP
\* POST; when it ends with a non-2xx status or a transport failure the
\* invocation fails with an error, returns no completion, stream or task result,
\* and sends no second POST.
C17_OnePostNoRetry ==
    HasExtractor =>
        /\ posts <= 1
        /\ RequestFailed => (result.kind = "error" /\ result.data.exception = "RuntimeError")

\* A follow-up request was answered with a non-2xx status and the invocation
\* failed after its one POST.
C17_Witness ==
    /\ HasExtractor
    /\ task = FOLLOW_UP_GENERATION
    /\ RequestFailed
    /\ response.status = 500
    /\ result.kind = "error"

\* The one POST of the invocation, sent with "stream": false, was answered with
\* a 2xx status and a body that is no JSON.
NonJsonAnswer ==
    /\ pc = "done"
    /\ posts = 1
    /\ ~payload.stream
    /\ response.status = 200
    /\ response.text \in NonJsonTexts

\* C18: in the v9 and JSON-aware pipes, when the upstream answers a
\* non-streaming request with a 2xx status and a body that is not valid JSON,
\* the invocation does not fail, in chat mode as well as in task mode, where the
\* task result is the default title or the empty follow-up list.
C18_NonJsonNotAFailure ==
    (HasExtractor /\ NonJsonAnswer) =>
        /\ result.kind # "error"
        /\ task = TITLE_GENERATION =>
              (result.data.key = "title" /\ result.data.value = fallback_title_summary(task_body))
        /\ task = FOLLOW_UP_GENERATION =>
              (result.data.key = "follow_ups" /\ result.data.value = <<>>)

(***************************************************************************)
(* _get_s3_client under concurrent invocations of one v9 instance.  Each   *)
(* thread runs invocations that call _get_s3_client; a thread switch can   *)
(* take place between the test of self._s3_client, the call of             *)
(* boto3.client, the store into self._s3_client and the read of the value  *)
(* that is returned.  The valves can be edited at any time.                *)
(***************************************************************************)
Threads == 1..MaxThreads
ClientValves == [credentials : BOOLEAN, DO_SPACES_REGION : {"nyc3", "sfo3"}]

\* The handle that the k-th successful call of boto3.client returns.
Handle(k) == S3Handle \o "#" \o ToString(k)

\* pc: where the thread is in _get_s3_client; built: the handle boto3.client
\* gave this thread; ret: what its last call of _get_s3_client returned.
IdleThread == [pc |-> "idle", built |-> None, ret |-> None]

ClientInit ==
    /\ valves \in ClientValves
    /\ s3_client = None
    /\ threads = [t \in Threads |-> IdleThread]
    /\ clients = 0
    /\ candidates = <<>>
    /\ seen_urls = {}
    /\ trace = <<>>
    /\ inbound = NoBody
    /\ env = QuietEnv
    /\ pc = "idle"
    /\ body = NoBody
    /\ response = NoResponse
    /\ stream_iter = <<>>
    /\ all_chunks = <<>>
    /\ accumulated_content = <<>>
    /\ image_urls = <<>>
    /\ urls_to_remove = <<>>
    /\ pending = <<>>
    /\ emitted = <<>>
    /\ result = NoResult
    /\ impl = "v9"
    /\ task = None
    /\ task_body = NoTaskBody
    /\ payload = NoPayload
    /\ posts = 0

invocationVars == <<env, pc, body, response, stream_iter, all_chunks,
                    accumulated_content, image_urls, urls_to_remove, pending,
                    emitted, result, impl, task, task_body, payload, posts,
                    candidates, seen_urls, trace, inbound>>

\* Thread t calls _get_s3_client: "if self._s3_client is not None: return
\* self._s3_client", then the test of the credentials.
GetClient(t) ==
    /\ threads[t].pc = "idle"
    /\ threads' =
          IF s3_client # None THEN [threads EXCEPT ![t].ret = s3_client]
          ELSE IF ~valves.credentials THEN [threads EXCEPT ![t].ret = None]
          ELSE [threads EXCEPT ![t].pc = "construct"]
    /\ UNCHANGED <<valves, s3_client, clients, invocationVars>>

\* boto3.client(...) returns a new client (ok) or raises.
Construct(t, ok) ==
    /\ threads[t].pc = "construct"
    /\ IF ok
       THEN /\ clients' = clients + 1
            /\ threads' = [threads EXCEPT ![t].pc = "assign",
                                          ![t].built = Handle(clients + 1)]
       ELSE /\ threads' = [threads EXCEPT ![t].pc = "idle", ![t].ret = None]
            /\ UNCHANGED clients
    /\ UNCHANGED <<valves, s3_client, invocationVars>>

\* self._s3_client = <the new client>
Assign(t) ==
    /\ threads[t].pc = "assign"
    /\ s3_client' = threads[t].built
    /\ threads' = [threads EXCEPT ![t].pc = "return"]
    /\ UNCHANGED <<valves, clients, invocationVars>>

\* return self._s3_client
Return(t) ==
    /\ threads[t].pc = "return"
    /\ threads' = [threads EXCEPT ![t].pc = "idle", ![t].ret = s3_client]
    /\ UNCHANGED <<valves, s3_client, clients, invocationVars>>

\* The credential or region options are edited.
SetValves(v) ==
    /\ v # valves
    /\ valves' = v
    /\ UNCHANGED <<s3_client, threads, clients, invocationVars>>

ClientNext ==
    \/ \E t \in Threads : GetClient(t)
    \/ \E t \in Threads, ok \in BOOLEAN : Construct(t, ok)
    \/ \E t \in Threads : Assign(t)
    \/ \E t \in Threads : Return(t)
    \/ \E v \in ClientValves : SetValves(v)

ClientSpec == ClientInit /\ [][ClientNext]_vars

\* C19: over any sequence and interleaving of invocations on one v9 instance
\* the signing client is constructed at most once, and once it has been
\* constructed _get_s3_client returns that handle on every call and
\* self._s3_client is never replaced.
C19_ClientConstructedOnce ==
    /\ clients <= 1
    /\ s3_client \in {None, Handle(1)}
    /\ \A t \in Threads : threads[t].ret \in {None, Handle(1)}

\* The message content the blocking path of the v9 pipe returns for a
\* completion that holds the text, under the valves, the history and the
\* signing results of the invocation, on an instance without client.
BlockingContentFor(text) ==
    add_enhancements_to_response(valves, env, None, [choices |-> <<text>>, finish_reason |-> "stop"], body).data.choices[1]

\* C20: for the same upstream text, history, configuration and signing
\* results, the concatenation of the content of all chunks emitted by the v9
\* streaming path equals the message content returned by the v9 blocking path.
C20_StreamingEqualsBlocking ==
    (body.stream /\ pc = "done" /\ result.kind = "stream") =>
        EmittedText = BlockingContentFor(UpstreamText)

\* A stream was emitted whose text was redacted and followed by the
\* notification and a gallery.
C20_Witness ==
    /\ body.stream
    /\ pc = "done"
    /\ result.kind = "stream"
    /\ urls_to_remove # <<>>
    /\ Notification \in Elems(EmittedText)
    /\ GalleryEntries(EmittedText) # <<>>
    /\ EmittedText = BlockingContentFor(UpstreamText)

(***************************************************************************)
(* The loop of _extract_image_urls, one candidate at a time.  The valve    *)
(* IMAGE_URL_PATTERN can be set to match any image URL, so the matches     *)
(* are drawn from URLs of every kind: on the Spaces domain or not, with a  *)
(* signature or not.  The text holds no Markdown image (embedded_urls is   *)
(* empty).  trace keeps, for each candidate the loop took up, whether      *)
(* _generate_presigned_url was called and what was listed.                 *)
(***************************************************************************)
OtherUrl == "https://example.com/chart.png"
CandidateUrls == {"u1", "u2", SignedUrl("u1"), OtherUrl}

ExtractInit ==
    /\ valves \in {v \in ValveSettings :
                      v.ENABLE_KB_IMAGE_DETECTION /\ ~v.ENABLE_SYSTEM_NOTIFICATION}
    /\ env \in {e \in Envs : SigningActive(valves) \/ e = QuietEnv}
    /\ candidates \in SeqsUpTo(CandidateUrls, MaxLen) \ {<<>>}
    /\ s3_client = None
    /\ pc = "extracting"
    /\ seen_urls = {}
    /\ trace = <<>>
    /\ inbound = NoBody
    /\ image_urls = <<>>
    /\ urls_to_remove = <<>>
    /\ body = NoBody
    /\ response = NoResponse
    /\ stream_iter = <<>>
    /\ all_chunks = <<>>
    /\ accumulated_content = <<>>
    /\ pending = <<>>
    /\ emitted = <<>>
    /\ result = NoResult
    /\ impl = "v9"
    /\ task = None
    /\ task_body = NoTaskBody
    /\ payload = NoPayload
    /\ posts = 0
    /\ threads = NoThreads
    /\ clients = 0

extractKept == <<valves, env, body, response, stream_iter, all_chunks,
                 accumulated_content, pending, emitted, result, impl, task,
                 task_body, payload, posts, threads, clients, inbound>>

Taken(url, attempted, listed) == [url |-> url, attempted |-> attempted, listed |-> listed]

\* "if url not in seen and url not in embedded_urls" is false: next match.
SkipSeen ==
    /\ pc = "extracting"
    /\ candidates # <<>>
    /\ Head(candidates) \in seen_urls
    /\ candidates' = Tail(candidates)
    /\ UNCHANGED <<extractKept, pc, s3_client, seen_urls, trace, image_urls,
                   urls_to_remove>>

\* _needs_signing(url) is true: _generate_presigned_url is called; the image
\* is skipped when it returns None, and listed under the signed URL otherwise.
SignCandidate ==
    /\ pc = "extracting"
    /\ candidates # <<>>
    /\ Head(candidates) \notin seen_urls
    /\ needs_signing(valves, Head(candidates))
    /\ LET original_url == Head(candidates)
           signed == generate_presigned_url(valves, env, s3_client, original_url)
       IN  /\ s3_client' = signed.client
           /\ trace' = Append(trace, Taken(original_url, TRUE, signed.url))
           /\ IF signed.url = None
              THEN /\ candidates' = Tail(candidates)
                   /\ UNCHANGED <<seen_urls, image_urls, urls_to_remove, pc>>
              ELSE /\ urls_to_remove' = Append(urls_to_remove, original_url)
                   /\ seen_urls' = Remember(seen_urls, original_url, signed.url)
                   /\ image_urls' = Append(image_urls, signed.url)
                   /\ IF LimitReached(valves, image_urls')
                      THEN pc' = "extracted" /\ UNCHANGED candidates
                      ELSE candidates' = Tail(candidates) /\ UNCHANGED pc
    /\ UNCHANGED extractKept

\* _needs_signing(url) is false: the URL is listed as it is.
ListCandidate ==
    /\ pc = "extracting"
    /\ candidates # <<>>
    /\ Head(candidates) \notin seen_urls
    /\ ~needs_signing(valves, Head(candidates))
    /\ LET url == Head(candidates)
       IN  /\ trace' = Append(trace, Taken(url, FALSE, url))
           /\ seen_urls' = Remember(seen_urls, url, url)
           /\ image_urls' = Append(image_urls, url)
           /\ IF LimitReached(valves, image_urls')
              THEN pc' = "extracted" /\ UNCHANGED candidates
              ELSE candidates' = Tail(candidates) /\ UNCHANGED pc
    /\ UNCHANGED <<extractKept, s3_client, urls_to_remove>>

\* The matches are exhausted.
LoopEnd ==
    /\ pc = "extracting"
    /\ candidates = <<>>
    /\ pc' = "extracted"
    /\ UNCHANGED <<extractKept, s3_client, candidates, seen_urls, trace, image_urls,
                   urls_to_remove>>

ExtractNext ==
    \/ SkipSeen
    \/ SignCandidate
    \/ ListCandidate
    \/ LoopEnd

ExtractSpec == ExtractInit /\ [][ExtractNext]_vars

\* The four conditions of the claim on a candidate URL.
SigningDue(url) ==
    /\ valves.ENABLE_PRESIGNED_URLS
    /\ valves.credentials
    /\ url \notin SignedUrls
    /\ url \in DoSpacesUrls \cup SignedUrls

\* C21: in the v9 pipe signing is attempted for a candidate URL if and only if
\* the signing option is enabled, both credentials are set, the URL carries no
\* X-Amz- parameter and the URL is on the digitaloceanspaces domain; in every
\* other case the candidate is listed in the gallery with its URL unchanged,
\* nothing is put on the redaction list for it and the signing capability is
\* not called.
C21_SigningIffNeeded ==
    \A i \in 1..Len(trace) :
        /\ trace[i].attempted <=> SigningDue(trace[i].url)
        /\ ~trace[i].attempted =>
              /\ trace[i].listed = trace[i].url
              /\ trace[i].url \in Elems(image_urls)
              /\ trace[i].url \notin Elems(urls_to_remove)

\* With signing enabled and the credentials set, the loop has signed one
\* candidate and listed another, which already carried a signature, unchanged.
C21_Witness ==
    /\ valves.ENABLE_PRESIGNED_URLS
    /\ valves.credentials
    /\ pc = "extracted"
    /\ \E i, j \in 1..Len(trace) :
          /\ trace[i].attempted
          /\ trace[i].listed = SignedUrl(trace[i].url)
          /\ ~trace[j].attempted
          /\ trace[j].url \in SignedUrls
          /\ trace[j].url \in Elems(image_urls)

(***************************************************************************)
(* The title of the title task, character by character: _extract_title and *)
(* _fallback_title of the v9 and the JSON-aware pipe, which are the same.   *)
(* A string is a sequence of one-character strings.                         *)
(***************************************************************************)
MaxMessages == 2
TitleLimit == 100
TitleCut == 97

Whitespace == {" ", "\t"}
Quote == "\""
Rep(c, n) == [i \in 1..n |-> c]
NewChatText == <<"N", "e", "w", " ", "C", "h", "a", "t">>
Ellipsis == <<".", ".", ".">>

\* str.strip()
RECURSIVE lstrip(_)
lstrip(s) == IF s # <<>> /\ Head(s) \in Whitespace THEN lstrip(Tail(s)) ELSE s
RECURSIVE rstrip(_)
rstrip(s) ==
    IF s # <<>> /\ s[Len(s)] \in Whitespace THEN rstrip(SubSeq(s, 1, Len(s) - 1)) ELSE s
strip(s) == rstrip(lstrip(s))

\* s[:n]
Prefix(s, n) == SubSeq(s, 1, Min(n, Len(s)))

\* Variant: runs of whitespace are kept as they are.
KeepRuns(s) == s

\* re.sub(r'\s+', ' ', s): every maximal run of whitespace becomes one space.
\* The two halves of s are collapsed apart; a run that spans the cut gave a
\* space on both sides, of which one is kept.
RECURSIVE CollapseWhitespace(_)
CollapseWhitespace(s) ==
    IF s = <<>> THEN <<>>
    ELSE IF Len(s) = 1 THEN (IF s[1] \in Whitespace THEN <<" ">> ELSE s)
    ELSE LET half == Len(s) \div 2
             left == CollapseWhitespace(SubSeq(s, 1, half))
             right == CollapseWhitespace(SubSeq(s, half + 1, Len(s)))
         IN  IF s[half] \in Whitespace /\ s[half + 1] \in Whitespace
             THEN left \o Tail(right)
             ELSE left \o right

\* A message content that is a string, and one that is not (a list of parts).
StrContent(chars) == [str |-> TRUE, chars |-> chars]
PartsContent == [str |-> FALSE, chars |-> <<>>]
Message(role, content) == [role |-> role, content |-> content]

\* __task_body__: None, or a dict with its messages.
AbsentTaskBody == [present |-> FALSE, messages |-> <<>>]
PresentTaskBody(messages) == [present |-> TRUE, messages |-> messages]

UserTexts ==
    {<<" ">>,
     <<" ", "h", "i", " ", "\t", "y", "o", "u", " ">>,
     Rep("a", 101),
     <<" ">> \o Rep("a", 98) \o <<" ", " ", "b">>}
TitleMessages ==
    {Message(role, content) :
        role \in {"user", "assistant"},
        content \in {PartsContent} \cup {StrContent(chars) : chars \in UserTexts}}
TitleTaskBodies ==
    {AbsentTaskBody}
    \cup {PresentTaskBody(messages) : messages \in SeqsUpTo(TitleMessages, MaxMessages)}

\* "for message in reversed(messages)": the title of the first message, from
\* the end, that has the user role and a non-blank string content.
RECURSIVE FromLastUserMessage(_)
FromLastUserMessage(messages) ==
    IF messages = <<>> THEN NewChatText
    ELSE LET message == messages[Len(messages)]
             content == message.content
         IN  IF /\ message.role = "user"
                /\ content.str
                /\ strip(content.chars) # <<>>
             THEN CollapseWhitespace(Prefix(strip(content.chars), TitleLimit))
             ELSE FromLastUserMessage(SubSeq(messages, 1, Len(messages) - 1))

fallback_title(tb) ==
    IF ~tb.present THEN NewChatText ELSE FromLastUserMessage(tb.messages)

\* json.dumps of an object with one string member, and json.loads of it.
TitleKey == <<"t", "i", "t", "l", "e">>
NameKey == <<"n", "a", "m", "e">>
JsonKeys == {TitleKey, NameKey}
JsonValues == {<<"Q", "3">>, Rep("a", 101)}
JsonText(key, value) ==
    <<"{", Quote>> \o key \o <<Quote, ":", Quote>> \o value \o <<Quote, "}">>
NotJson == [ok |-> FALSE, key |-> <<>>, value |-> <<>>]
json_loads(json_str) ==
    IF \E key \in JsonKeys, value \in JsonValues : json_str = JsonText(key, value)
    THEN LET kv == CHOOSE kv \in JsonKeys \X JsonValues : json_str = JsonText(kv[1], kv[2])
         IN  [ok |-> TRUE, key |-> kv[1], value |-> kv[2]]
    ELSE NotJson

\* content.find("{") and content.rfind("}"), 1-based; 0: not found.
Find(s, c) ==
    IF \E i \in 1..Len(s) : s[i] = c
    THEN CHOOSE i \in 1..Len(s) : s[i] = c /\ \A j \in 1..(i - 1) : s[j] # c
    ELSE 0
RFind(s, c) ==
    IF \E i \in 1..Len(s) : s[i] = c
    THEN CHOOSE i \in 1..Len(s) : s[i] = c /\ \A j \in (i + 1)..Len(s) : s[j] # c
    ELSE 0

\* The JSON object between the first "{" and the last "}", when it parses.
ParsedObject(content) ==
    LET json_start == Find(content, "{")
        json_end == RFind(content, "}")
    IN  IF json_start # 0 /\ json_end >= json_start
        THEN json_loads(SubSeq(content, json_start, json_end))
        ELSE NotJson

\* Variant: surrounding quotes are kept.
KeepQuotes(title) == title

\* if title and title[0] == '"' and title[-1] == '"': title = title[1:-1]
Unquote(title) ==
    IF title # <<>> /\ title[1] = Quote /\ title[Len(title)] = Quote
    THEN SubSeq(title, 2, Len(title) - 1)
    ELSE title

\* if len(title) > 100: title = title[:97] + "..."
Limit(title) ==
    IF Len(title) > TitleLimit THEN Prefix(title, TitleCut) \o Ellipsis ELSE title

extract_title(content, tb) ==
    IF content = <<>> THEN fallback_title(tb)
    ELSE LET stripped == strip(content)
             parsed == ParsedObject(stripped)
         IN  IF parsed.ok /\ parsed.key = TitleKey THEN parsed.value
             ELSE LET title == Limit(Unquote(stripped))
                  IN  IF title = <<>> THEN fallback_title(tb) ELSE title

\* The content of the upstream answer to the title prompt.
TitleContents ==
    {<<>>, <<" ", " ">>, <<Quote>>, <<Quote, Quote>>,
     <<" ", "A", " ", "t", "i", "t", "l", "e", " ">>,
     <<Quote, "Q", "3", Quote>>,
     <<"{", "a", "}">>,
     JsonText(TitleKey, <<"Q", "3">>),
     JsonText(TitleKey, Rep("a", 101)),
     JsonText(NameKey, <<"Q", "3">>),
     <<"O", "K", ":", " ">> \o JsonText(TitleKey, <<"Q", "3">>) \o <<".">>,
     Rep("a", 100), Rep("a", 101),
     <<" ">> \o Rep("a", 100),
     <<Quote>> \o Rep("a", 99) \o <<Quote>>,
     <<Quote>> \o Rep("a", 100) \o <<Quote>>,
     <<Quote>> \o Rep("a", 101) \o <<Quote>>}

NoTitle == [title |-> <<>>, returned |-> FALSE]

TitleInit ==
    /\ task = TITLE_GENERATION
    /\ task_body \in TitleTaskBodies
    /\ response \in {[content |-> content] : content \in TitleContents}
    /\ result = NoTitle
    /\ pc = "task"
    /\ impl \in {"v9", "json"}
    /\ valves = CHOOSE v \in ValveSettings : TRUE
    /\ s3_client = None
    /\ env = QuietEnv
    /\ body = NoBody
    /\ stream_iter = <<>>
    /\ all_chunks = <<>>
    /\ accumulated_content = <<>>
    /\ image_urls = <<>>
    /\ urls_to_remove = <<>>
    /\ pending = <<>>
    /\ emitted = <<>>
    /\ payload = NoPayload
    /\ posts = 0
    /\ threads = NoThreads
    /\ clients = 0
    /\ candidates = <<>>
    /\ seen_urls = {}
    /\ trace = <<>>
    /\ inbound = NoBody

\* title = self._extract_title(content, task_body)
ExtractTitle ==
    /\ pc = "task"
    /\ result' = [title |-> extract_title(response.content, task_body), returned |-> TRUE]
    /\ pc' = "done"
    /\ UNCHANGED <<valves, s3_client, env, body, response, stream_iter, all_chunks,
                   accumulated_content, image_urls, urls_to_remove, pending, emitted,
                   impl, task, task_body, payload, posts, threads, clients,
                   candidates, seen_urls, trace, inbound>>

TitleNext == ExtractTitle

TitleSpec == TitleInit /\ [][TitleNext]_vars

\* The positions of the user messages whose content is a non-blank string.
UserStrings ==
    {i \in 1..Len(task_body.messages) :
        /\ task_body.messages[i].role = "user"
        /\ task_body.messages[i].content.str
        /\ \E k \in 1..Len(task_body.messages[i].content.chars) :
              task_body.messages[i].content.chars[k] \notin Whitespace}

\* s without the whitespace at its two ends: from its first to its last
\* character that is not whitespace.
Trimmed(s) ==
    LET solid == {k \in 1..Len(s) : s[k] \notin Whitespace}
    IN  IF solid = {} THEN <<>>
        ELSE SubSeq(s, CHOOSE a \in solid : \A k \in solid : a <= k,
                       CHOOSE b \in solid : \A k \in solid : k <= b)

\* s with every run of whitespace turned into one space: a character is
\* dropped when it and the one before it are whitespace.
WithPrevious(s) ==
    [k \in 1..Len(s) |-> [c |-> s[k], after_space |-> k > 1 /\ s[k - 1] \in Whitespace]]
StartsRunOrSolid(p) == p.c \notin Whitespace \/ ~p.after_space
Squeezed(s) ==
    LET kept == SelectSeq(WithPrevious(s), StartsRunOrSolid)
    IN  [k \in 1..Len(kept) |-> IF kept[k].c \in Whitespace THEN " " ELSE kept[k].c]

FirstChars(s, n) == IF Len(s) < n THEN s ELSE SubSeq(s, 1, n)

\* C22: in the title task, when no upstream content is available, the title
\* is the content of the most recent user message of the task payload that is
\* a non-blank string, stripped, cut to its first 100 characters and with runs
\* of whitespace collapsed to one space; with no such message or no task
\* payload the title is "New Chat".
C22_FallbackTitle ==
    (result.returned /\ response.content = <<>>) =>
        IF ~task_body.present \/ UserStrings = {}
        THEN result.title = NewChatText
        ELSE LET last == CHOOSE i \in UserStrings : \A k \in UserStrings : k <= i
                 chars == task_body.messages[last].content.chars
             IN  result.title = Squeezed(FirstChars(Trimmed(chars), 100))

\* No content came back, the last message of the payload is an assistant
\* message and the user message before it has blanks around and inside it: the
\* title is that message, trimmed and with its runs of whitespace collapsed.
C22_Witness ==
    /\ result.returned
    /\ response.content = <<>>
    /\ task_body.present
    /\ Len(task_body.messages) = 2
    /\ task_body.messages[2].role = "assistant"
    /\ task_body.messages[1] =
          Message("user", StrContent(<<" ", "h", "i", " ", "\t", "y", "o", "u", " ">>))
    /\ result.title = <<"h", "i", " ", "y", "o", "u">>

\* The content holds the text of a JSON object with a title member.
HoldsTitleJson(content) ==
    \E a, b \in {k \in 1..Len(content) : content[k] \in {"{", "}"}} :
        \E value \in JsonValues : SubSeq(content, a, b) = JsonText(TitleKey, value)

\* s without one pair of surrounding double quotes.
WithoutQuotes(s) ==
    IF Len(s) >= 1 /\ s[1] = Quote /\ s[Len(s)] = Quote
    THEN SubSeq(s, 2, Len(s) - 1)
    ELSE s

\* A title came from an upstream text that holds no JSON title and that is not
\* empty once its surrounding whitespace and quotes are taken off.
TitleFromPlainText ==
    /\ result.returned
    /\ ~HoldsTitleJson(response.content)
    /\ WithoutQuotes(Trimmed(response.content)) # <<>>

\* C23 (as stated): in the title task, when the upstream text holds no
\* parseable JSON object with a title key, the title is at most 100 characters
\* long: a text of at most 100 characters is returned whole, minus one pair of
\* surrounding double quotes, and a longer text is cut to its first 97
\* characters followed by "...".  The length is that of the text as received.
C23_TitleFromTextLength ==
    TitleFromPlainText =>
        LET text == Trimmed(response.content)
        IN  /\ Len(result.title) <= 100
            /\ Len(text) <= 100 => result.title = WithoutQuotes(text)
            /\ Len(text) > 100 => result.title = FirstChars(text, 97) \o <<".", ".", ".">>

\* C23 (amended): the length that decides is the one of the text without its
\* surrounding whitespace and without one pair of surrounding double quotes:
\* at most 100 characters of it are returned whole, more are cut to the first
\* 97 of them followed by "...", and the title is never longer than 100.
C23_TitleFromUnquotedLength ==
    /\ result.returned /\ ~HoldsTitleJson(response.content) => Len(result.title) <= 100
    /\ TitleFromPlainText =>
          LET text == WithoutQuotes(Trimmed(response.content))
          IN  /\ Len(text) <= 100 => result.title = text
              /\ Len(text) > 100 => result.title = FirstChars(text, 97) \o <<".", ".", ".">>

\* A quoted text of 101 characters between the quotes came back and was cut
\* to 97 characters and the dots, without the opening quote.
C23_Witness ==
    /\ result.returned
    /\ response.content = <<Quote>> \o Rep("a", 101) \o <<Quote>>
    /\ result.title = Rep("a", 97) \o <<".", ".", ".">>

\* The upstream call of the simple pipe has failed: a transport error
\* (status 0), a non-2xx status, or a 2xx answer whose body is empty or is
\* no JSON.
SimpleCallFailed ==
    /\ impl = "simple"
    /\ pc = "done"
    /\ response.status # 200 \/ response.text # "-"

\* C24: in the simple pipe a failure of the upstream call (transport error,
\* non-2xx status, empty body, non-JSON body) never propagates: the call gives
\* a completion with exactly one choice, whose finish_reason is "error" and
\* whose content starts with "Error:", after at most one HTTP POST.
C24_FailureIsErrorCompletion ==
    SimpleCallFailed =>
        /\ result.kind = "completion"
        /\ Len(result.data.choices) = 1
        /\ result.data.finish_reason = "error"
        /\ result.data.choices[1] # <<>>
        /\ result.data.choices[1][1].t = "error"
        /\ posts <= 1

\* The simple pipe has answered a chat turn whose request got a 2xx answer
\* with a body that is no JSON, and a task whose request got no answer.
C24_Witness ==
    /\ impl = "simple"
    /\ pc = "done"
    /\ \/ response.status = 200 /\ response.text = "<html>" /\ task = None
       \/ response.status = 0 /\ task # None
    /\ result.kind = "completion"
    /\ result.data.finish_reason = "error"

\* C25: in the v9 and the JSON-aware streaming path, once the upstream line
\* "data: [DONE]" has been emitted to the caller, no content chunk (of the
\* notification or of the gallery) is emitted after it.
C25_NothingAfterDone ==
    \A i, j \in 1..Len(emitted) :
        (i < j /\ emitted[i].kind = "done") => emitted[j].kind # "data"

\* The JSON-aware pipe streams a chat turn with the notification enabled.
NotifiedStream ==
    /\ impl = "json"
    /\ task = None
    /\ valves.ENABLE_SYSTEM_NOTIFICATION
    /\ payload.stream
    /\ response.status = 200

\* What has been emitted beyond the upstream lines.
AfterUpstream ==
    IF Len(emitted) > Len(response.lines)
    THEN SubSeq(emitted, Len(response.lines) + 1, Len(emitted))
    ELSE <<>>

\* C26: in the streaming path of the JSON-aware pipe with the notification
\* enabled, every upstream chunk is emitted unchanged and in upstream order,
\* the notification chunks are emitted only after the upstream stream is
\* exhausted, the concatenation of their content is the configured message,
\* and with an assistant message in the history the emitted sequence is the
\* upstream sequence.
C26_UpstreamThenNotification ==
    NotifiedStream =>
        /\ \A i \in 1..Len(emitted) :
              i <= Len(response.lines) => emitted[i] = response.lines[i]
        /\ AfterUpstream # <<>> => stream_iter = <<>>
        /\ pc = "done" =>
              /\ Len(emitted) >= Len(response.lines)
              /\ IF "assistant" \in Elems(body.messages)
                 THEN emitted = response.lines
                 ELSE Concat([i \in 1..Len(AfterUpstream) |-> AfterUpstream[i].content])
                         = SYSTEM_NOTIFICATION_MESSAGE

\* A first turn was streamed to its end: the two upstream lines came first and
\* the two pieces of the notification after them.
C26_Witness ==
    /\ NotifiedStream
    /\ pc = "done"
    /\ "assistant" \notin Elems(body.messages)
    /\ Len(response.lines) = 2
    /\ Len(emitted) = 4
    /\ emitted[3].content = <<MessagePart(1)>>
    /\ emitted[4].content = <<MessagePart(2)>>

(***************************************************************************)
(* The generator _stream_with_enhancements of the v9 pipe on upstream      *)
(* streams with lines of every kind: content lines, empty lines, lines     *)
(* without content, lines that are no JSON and the [DONE] line; reading    *)
(* the upstream stream can fail at any line.                               *)
(***************************************************************************)
RoleLine == [kind |-> "role", content |-> <<>>]         \* data: {"choices":[{"delta":{"role":"assistant"}}]}
GarbageLine == [kind |-> "garbage", content |-> <<>>]   \* a line json.loads rejects
UpstreamLines ==
    {DataLine(<<Word>>), DataLine(<<Url("u1")>>), EmptyLine, RoleLine, GarbageLine, DoneLine}
UpstreamStreams == SeqsUpTo(UpstreamLines, MaxLines)

\* Variant: the lines read so far have been passed on to the caller.
PassedThrough(chunks) == chunks

\* The read loop "for chunk in stream_iter" holds no yield: when it is left by
\* an exception, nothing has been emitted.
YieldedWhileReading(chunks) == <<>>

StreamInit ==
    /\ valves \in ValveSettings
    /\ body \in {b \in Bodies : b.stream}
    /\ response \in {[lines |-> lines, json |-> NoJson, status |-> 200, text |-> "-"] :
                        lines \in UpstreamStreams}
    /\ stream_iter = response.lines
    /\ result = [kind |-> "stream", data |-> NoJson]
    /\ pc = "reading"
    /\ env = QuietEnv
    /\ s3_client = None
    /\ all_chunks = <<>>
    /\ accumulated_content = <<>>
    /\ image_urls = <<>>
    /\ urls_to_remove = <<>>
    /\ pending = <<>>
    /\ emitted = <<>>
    /\ impl = "v9"
    /\ task = None
    /\ task_body = NoTaskBody
    /\ payload = [messages |-> body.messages, stream |-> TRUE]
    /\ posts = 1
    /\ threads = NoThreads
    /\ clients = 0
    /\ candidates = <<>>
    /\ seen_urls = {}
    /\ trace = <<>>
    /\ inbound = body

\* response.iter_lines() raises while the caller pulls the first chunk: the
\* exception leaves the generator through the read loop.
ReadFails ==
    /\ pc = "reading"
    /\ stream_iter # <<>>
    /\ emitted' = emitted \o YieldedWhileReading(all_chunks)
    /\ result' = Raised("ChunkedEncodingError")
    /\ pc' = "done"
    /\ UNCHANGED <<valves, s3_client, env, body, response, stream_iter, all_chunks,
                   accumulated_content, image_urls, urls_to_remove, pending>>
    /\ UNCHANGED <<impl, task, task_body, payload, posts, threads, clients,
                   candidates, seen_urls, trace, inbound>>

StreamNext ==
    \/ ReadChunk
    \/ ReadFails
    \/ Enhance
    \/ Yield
    \/ StopIteration

StreamSpec == StreamInit /\ [][StreamNext]_vars

\* A chunk the pipe adds: the notification chunk or the gallery chunk.
AddedChunk(chunk) ==
    /\ chunk.kind = "data"
    /\ chunk.content # <<>>
    /\ chunk.content[1].t \in {"notification", "heading", "entry"}

\* The chunks emitted before the first added chunk.
BeforeAdded ==
    LET added == {i \in 1..Len(emitted) : AddedChunk(emitted[i])}
    IN  IF added = {} THEN emitted
        ELSE SubSeq(emitted, 1, (CHOOSE i \in added : \A k \in added : i <= k) - 1)

\* C27: in the v9 streaming path, when no URL is put on the redaction list,
\* the chunks emitted before any notification or gallery chunk are exactly the
\* upstream chunks: same values, same order, same count, with the empty lines,
\* the lines without content and the lines that fail to parse.
C27_UpstreamChunksUnchanged ==
    (impl = "v9" /\ payload.stream /\ result.kind = "stream" /\ urls_to_remove = <<>>) =>
        /\ pc \in {"yielding", "done"} =>
              \A i \in 1..Len(BeforeAdded) :
                  i <= Len(response.lines) /\ BeforeAdded[i] = response.lines[i]
        /\ pc = "done" => BeforeAdded = response.lines

\* A stream of an empty line and a line that fails to parse was passed on as
\* it came, with the notification chunk after it.
C27_Witness ==
    /\ pc = "done"
    /\ result.kind = "stream"
    /\ urls_to_remove = <<>>
    /\ response.lines = <<EmptyLine, GarbageLine>>
    /\ Len(emitted) = 3
    /\ emitted[1] = EmptyLine
    /\ emitted[2] = GarbageLine
    /\ AddedChunk(emitted[3])

\* C28: in the v9 streaming path, when reading the upstream stream fails
\* before its end, the error reaches the caller before any chunk has been
\* emitted: no partial response is followed by an error.
C28_NoChunkBeforeReadError ==
    (impl = "v9" /\ payload.stream /\ result.kind = "error") => emitted = <<>>

\* The upstream stream failed at its second line, after a content line had
\* been read, and the caller got the error and no chunk.
C28_Witness ==
    /\ impl = "v9"
    /\ payload.stream
    /\ result.kind = "error"
    /\ Len(all_chunks) = 1
    /\ all_chunks[1].kind = "data"
    /\ Len(stream_iter) = 1
    /\ emitted = <<>>

\* C29: in the v9 blocking path, when the upstream completion object has no
\* choices key or an empty choices list, the invocation returns that object
\* unchanged and raises nothing, whatever the notification and image-detection
\* options and the message history are.
C29_NoChoicesReturnedUnchanged ==
    (/\ impl = "v9"
     /\ task = None
     /\ pc = "done"
     /\ ~payload.stream
     /\ response.status = 200
     /\ response.text = "-"
     /\ response.json.choices = <<>>) =>
        /\ result.kind = "completion"
        /\ result.data = response.json

\* C30: an invocation of pipe never modifies the inbound request: after any
\* chat-mode or task-mode invocation of the v9 and the JSON-aware pipe the
\* message list of the body has the same messages in the same order as
\* before; the system message of a task is prepended to a new list and not to
\* the caller's list.
C30_InboundRequestUnchanged ==
    (HasExtractor /\ pc # "idle") =>
        /\ body = inbound
        /\ body.messages = inbound.messages

\* A title task was sent with the system message in front of the caller's
\* messages and has ended with the caller's list as it was.
C30_Witness ==
    /\ HasExtractor
    /\ task = TITLE_GENERATION
    /\ pc = "done"
    /\ posts = 1
    /\ Len(payload.messages) = Len(inbound.messages) + 1
    /\ body.messages = inbound.messages
    /\ inbound.messages # <<>>

====
